---- MODULE Spec2Model ----
(***************************************************************************)
(* Model of the Altimetry-Interpolation repository.                        *)
(*                                                                         *)
(*  - python/run_diva2D_altimetry.ipynb: the batch run (contour staging,   *)
(*    mesh generation, mesh reading, analysis loop over the data files),   *)
(*    executed top to bottom; an exception raised by a statement stops     *)
(*    the execution.                                                       *)
(*  - README.md (module DivandAltimetry): shiftlon and the along-track     *)
(*    loaders loadaviso_alongtrack (one file / a list of files).           *)
(*                                                                         *)
(* pydiva2d, shutil and the DIVA solver are external: the notebook only    *)
(* sees whether a call returns or raises, so their outcome is a            *)
(* nondeterministic choice in the actions below.                           *)
(***************************************************************************)
EXTENDS Integers, Sequences, FiniteSets, TLC

\* ------------------------------------------------------------------ bounds
\* longest wildcard part of a data file name
MaxLen == 2
\* most data files in datadir
MaxFiles == 3
\* longitudes given to shiftlon: -MaxLon .. MaxLon degrees
MaxLon == 720
\* largest node count a mesh topology file declares
MaxNodes == 4
\* largest size of the array read from the mesh file
MaxMeshSize == 14
\* most observations in one along-track file
MaxObs == 2
\* longest list of files given to loadaviso_alongtrack
MaxFileList == 3

VARIABLES
    \* ---- the notebook run
    pc,            \* the statement to execute next, "done" or "raised"
    exc,           \* the exception that stopped the run, "none" otherwise
    divadirExists, \* whether divadir (the DIVA installation) exists on disk
    datadir,       \* the data files in datadir: wildcard parts of their names
    files,         \* sorted(glob.glob(...)), fixed when the loop starts
    i,             \* index in files of the current data file (0: none yet)
    contour,       \* content of DivaFiles.contour
    parameter,     \* content of DivaFiles.parameter
    data,          \* content of DivaFiles.data
    meshfile,      \* content of DivaFiles.mesh / DivaFiles.meshtopo
    result,        \* content of DivaFiles.result
    outputdir,     \* files of outputdir: batch identifier -> content
    meshCalls,     \* number of Diva2DMesh().make calls so far
    meshOutcome,   \* what the solver did in mesh mode: "none", "ok", "failed"
    analysed,      \* indices whose Diva2DResults().make was called
    failedBatches, \* indices of the data files whose processing failed
    \* ---- shiftlon applied to a longitude
    lon,           \* the longitude given, in degrees
    lonOut,        \* <<shiftlon(lon)>>, then <<shiftlon(lon), shiftlon(shiftlon(lon))>>
    \* ---- loadaviso_alongtrack on a list of files
    filelist,      \* the files given
    loadState,     \* "called", "returned" or "raised"
    loaded,        \* the tuple returned: obsvallist, obslonlist, obslatlist, obstimelist
    warnings,      \* the messages given to @warn
    \* ---- read_from_np on the mesh files
    nnodes,        \* the node count the mesh topology file declares
    meshsize,      \* the size of the array meshnodes read from the mesh file
    readState,     \* "called", "ok" or "IndexError"
    accessed       \* the indices of meshnodes the read asked for

runVars == <<pc, exc, divadirExists, datadir, files, i, contour, parameter,
             data, meshfile, result, outputdir, meshCalls, meshOutcome,
             analysed, failedBatches>>

lonVars == <<lon, lonOut>>

loadVars == <<filelist, loadState, loaded, warnings>>

meshVars == <<nnodes, meshsize, readState, accessed>>

notRun == <<lonVars, loadVars, meshVars>>

vars == <<runVars, lonVars, loadVars, meshVars>>

\* ------------------------------------------------------- data file names
\* Characters are their ASCII codes: '.' = 46, 'a' = 97.
WildChars == {46, 97}

RECURSIVE SeqsUpTo(_, _)
SeqsUpTo(S, n) ==
    IF n = 0 THEN {<<>>}
    ELSE LET shorter == SeqsUpTo(S, n - 1)
         IN  shorter \cup {Append(s, c) : s \in shorter, c \in S}

\* The names the pattern 'data_201409*.dat' can match, by what '*' matches.
WildParts == SeqsUpTo(WildChars, MaxLen)

\* os.path.basename(datafile) of a file matching 'data_201409*.dat'
Basename(w) ==
    <<100, 97, 116, 97, 95, 50, 48, 49, 52, 48, 57>> \o w \o <<46, 100, 97, 116>>

\* Python's str order: the first differing character decides, a proper
\* prefix comes first.
RECURSIVE StrLess(_, _)
StrLess(a, b) ==
    IF b = <<>> THEN FALSE
    ELSE IF a = <<>> THEN TRUE
    ELSE IF Head(a) # Head(b) THEN Head(a) < Head(b)
    ELSE StrLess(Tail(a), Tail(b))

\* sorted(glob.glob(os.path.join(datadir, 'data_201409*.dat')))
RECURSIVE Sorted(_)
Sorted(S) ==
    IF S = {} THEN <<>>
    ELSE LET m == CHOOSE x \in S : \A y \in S \ {x} : StrLess(Basename(x), Basename(y))
         IN  <<m>> \o Sorted(S \ {m})

\* s.split('.')[0]: the text before the first '.'
RECURSIVE SplitFirst(_)
SplitFirst(s) ==
    IF s = <<>> \/ Head(s) = 46 THEN <<>>
    ELSE <<Head(s)>> \o SplitFirst(Tail(s))

\* outputfile = "".join((os.path.basename(datafile).split('.')[0], '.nc'))
Outputfile(w) == SplitFirst(Basename(w)) \o <<46, 110, 99>>

\* ------------------------------------------------- contents of the files
\* A fixed location holds nothing, what an earlier run left there, or what
\* this run put there for (or computed from) the data file of index batch.
Absent == [src |-> "absent", batch |-> 0]

Stale == [src |-> "stale", batch |-> 0]

DataOf(k) == [src |-> "datafile", batch |-> k]

ResultOf(k) == [src |-> "solver", batch |-> k]

\* ------------------------------------------------------------- the mesh
\* np.arange(start, stop, step) for a positive step
Arange(start, stop, step) ==
    {start + step * k : k \in {j \in 0 .. stop : start + step * j < stop}}

\* The indices read_from_np asks meshnodes for:
\*   cls.xnode = meshnodes[np.arange(1, cls.nnodes * 3, 3)]
\*   cls.ynode = meshnodes[np.arange(2, cls.nnodes * 3, 3)]
NodeIndices(n) == Arange(1, n * 3, 3) \cup Arange(2, n * 3, 3)

\* An index at or past the end of the array raises IndexError ("index 6706
\* is out of bounds for axis 0 with size 6704"); no other check is made.
ReadFromNp(n, size) ==
    IF \E k \in NodeIndices(n) : k >= size THEN "IndexError" ELSE "ok"

\* The mesh files at DivaFiles.mesh / DivaFiles.meshtopo.
NoMesh == [origin |-> "absent", nnodes |-> 0, size |-> 0]

\* What a mesh generation may leave: two nodes declared, with the six values
\* of two nodes in the mesh file or with fewer.
MeshesWritten(origin) ==
    {[origin |-> origin, nnodes |-> 2, size |-> s] : s \in {4, 6}}

\* ---------------------------------------------------------------- the run
RunInit ==
    /\ pc = "dirs"
    /\ exc = "none"
    /\ divadirExists \in BOOLEAN
    /\ datadir \in {S \in SUBSET WildParts : Cardinality(S) <= MaxFiles}
    /\ files = <<>>
    /\ i = 0
    \* an earlier run may have left its files at the fixed locations
    /\ \E stale \in BOOLEAN :
          /\ stale => divadirExists
          /\ contour = IF stale THEN "stale" ELSE "absent"
          /\ parameter = IF stale THEN "stale" ELSE "absent"
          /\ data = IF stale THEN Stale ELSE Absent
          /\ result = IF stale THEN Stale ELSE Absent
          /\ meshfile \in IF stale THEN MeshesWritten("stale") ELSE {NoMesh}
    /\ outputdir = <<>>
    /\ meshCalls = 0
    /\ meshOutcome = "none"
    /\ analysed = {}
    /\ failedBatches = {}

\* An exception leaves the cell: nothing after it is executed.
Raise(e) ==
    /\ pc' = "raised"
    /\ exc' = e

\* DivaDirs = pydiva2d.DivaDirectories(divadir)
\* DivaFiles = pydiva2d.Diva2Dfiles(DivaDirs.diva2d)       (path joining only;
\* pydiva2d may or may not reject a directory that does not exist)
MakeDirs ==
    /\ pc = "dirs"
    /\ \/ pc' = "contour" /\ UNCHANGED exc
       \/ ~divadirExists /\ Raise("AttributeError")
    /\ UNCHANGED <<divadirExists, datadir, files, i, contour, parameter,
                   data, meshfile, result, outputdir, meshCalls, meshOutcome,
                   analysed, failedBatches>>
    /\ UNCHANGED notRun

\* the copy of the contour going through without the installation directory
CopyContourAnywhere ==
    /\ pc = "contour"
    /\ \/ /\ contour' = "coast"
          /\ pc' = "meshparam"
          /\ UNCHANGED exc
       \/ /\ Raise("IOError")
          /\ UNCHANGED contour
    /\ UNCHANGED <<divadirExists, datadir, files, i, parameter, data, meshfile,
                   result, outputdir, meshCalls, meshOutcome, analysed,
                   failedBatches>>
    /\ UNCHANGED notRun

\* shutil.copy2(coastfile, DivaFiles.contour): the destination lies under
\* divadir, so the copy raises when divadir does not exist.
CopyContour ==
    /\ pc = "contour"
    /\ \/ /\ divadirExists
          /\ contour' = "coast"
          /\ pc' = "meshparam"
          /\ UNCHANGED exc
       \/ /\ Raise("IOError")
          /\ UNCHANGED contour
    /\ UNCHANGED <<divadirExists, datadir, files, i, parameter, data, meshfile,
                   result, outputdir, meshCalls, meshOutcome, analysed,
                   failedBatches>>
    /\ UNCHANGED notRun

\* shutil.copy2(paramfilemesh, DivaFiles.parameter)
CopyParamMesh ==
    /\ pc = "meshparam"
    /\ \/ /\ parameter' = "mesh"
          /\ pc' = "meshmake"
          /\ UNCHANGED exc
       \/ /\ Raise("IOError")
          /\ UNCHANGED parameter
    /\ UNCHANGED <<divadirExists, datadir, files, i, contour, data, meshfile,
                   result, outputdir, meshCalls, meshOutcome, analysed,
                   failedBatches>>
    /\ UNCHANGED notRun

\* pydiva2d.Diva2DMesh().make(divadir): the call returns nothing the notebook
\* looks at, so a solver that failed without a Python exception goes unseen.
MeshMake ==
    /\ pc = "meshmake"
    /\ meshCalls' = meshCalls + 1
    /\ \/ /\ meshfile' \in MeshesWritten("new")
          /\ meshOutcome' = "ok"
          /\ pc' = "meshread"
          /\ UNCHANGED exc
       \/ /\ meshOutcome' = "failed"
          /\ pc' = "meshread"
          /\ UNCHANGED <<exc, meshfile>>
       \/ /\ meshOutcome' = "failed"
          /\ Raise("SolverError")
          /\ UNCHANGED meshfile
    /\ UNCHANGED <<divadirExists, datadir, files, i, contour, parameter, data,
                   result, outputdir, analysed, failedBatches>>
    /\ UNCHANGED notRun

\* eee = pydiva2d.Diva2DMesh(); eee.read_from_np(DivaFiles.mesh, DivaFiles.meshtopo)
MeshRead ==
    /\ pc = "meshread"
    /\ IF meshfile.origin = "absent" THEN Raise("IOError")
       ELSE IF ReadFromNp(meshfile.nnodes, meshfile.size) # "ok"
            THEN Raise(ReadFromNp(meshfile.nnodes, meshfile.size))
       ELSE pc' = "anaparam" /\ UNCHANGED exc
    /\ UNCHANGED <<divadirExists, datadir, files, i, contour, parameter, data,
                   meshfile, result, outputdir, meshCalls, meshOutcome,
                   analysed, failedBatches>>
    /\ UNCHANGED notRun

\* the loop entered without the analysis parameter file being copied
CopyParamSkipped ==
    /\ pc = "anaparam"
    /\ files' = Sorted(datadir)
    /\ pc' = "loop"
    /\ UNCHANGED <<exc, parameter, divadirExists, datadir, i, contour, data,
                   meshfile, result, outputdir, meshCalls, meshOutcome,
                   analysed, failedBatches>>
    /\ UNCHANGED notRun

\* shutil.copy2(paramfile, DivaFiles.parameter), then the for statement
\* evaluates sorted(glob.glob(...)) once.
CopyParam ==
    /\ pc = "anaparam"
    /\ \/ /\ parameter' = "analysis"
          /\ files' = Sorted(datadir)
          /\ pc' = "loop"
          /\ UNCHANGED exc
       \/ /\ Raise("IOError")
          /\ UNCHANGED <<parameter, files>>
    /\ UNCHANGED <<divadirExists, datadir, i, contour, data, meshfile, result,
                   outputdir, meshCalls, meshOutcome, analysed, failedBatches>>
    /\ UNCHANGED notRun

\* for datafile in ...: the next data file, or the end of the loop
LoopNext ==
    /\ pc = "loop"
    /\ IF i < Len(files)
       THEN i' = i + 1 /\ pc' = "copydata"
       ELSE pc' = "done" /\ UNCHANGED i
    /\ UNCHANGED <<exc, divadirExists, datadir, files, contour, parameter, data,
                   meshfile, result, outputdir, meshCalls, meshOutcome,
                   analysed, failedBatches>>
    /\ UNCHANGED notRun

\* shutil.copy2(datafile, DivaFiles.data)
CopyData ==
    /\ pc = "copydata"
    /\ \/ /\ data' = DataOf(i)
          /\ pc' = "make"
          /\ UNCHANGED <<exc, failedBatches>>
       \/ /\ Raise("IOError")
          /\ failedBatches' = failedBatches \cup {i}
          /\ UNCHANGED data
    /\ UNCHANGED <<divadirExists, datadir, files, i, contour, parameter,
                   meshfile, result, outputdir, meshCalls, meshOutcome, analysed>>
    /\ UNCHANGED notRun

\* pydiva2d.Diva2DResults().make(divadir): as for the mesh, the value of the
\* call is dropped; a solver that wrote no result leaves DivaFiles.result as
\* it was.
Make ==
    /\ pc = "make"
    /\ analysed' = analysed \cup {i}
    /\ \/ /\ result' = ResultOf(i)
          /\ pc' = "copyresult"
          /\ UNCHANGED <<exc, failedBatches>>
       \/ /\ failedBatches' = failedBatches \cup {i}
          /\ pc' = "copyresult"
          /\ UNCHANGED <<exc, result>>
       \/ /\ failedBatches' = failedBatches \cup {i}
          /\ Raise("SolverError")
          /\ UNCHANGED result
    /\ UNCHANGED <<divadirExists, datadir, files, i, contour, parameter, data,
                   meshfile, outputdir, meshCalls, meshOutcome>>
    /\ UNCHANGED notRun

\* shutil.copy2(src, dst) into outputdir: dst is created, or replaced when it
\* exists already.
Copy2(dir, name, content) ==
    [n \in DOMAIN dir \cup {name} |-> IF n = name THEN content ELSE dir[n]]

\* outputfile = ...; shutil.copy2(DivaFiles.result, os.path.join(outputdir, outputfile))
CopyResult ==
    /\ pc = "copyresult"
    /\ \/ /\ result # Absent
          /\ outputdir' = Copy2(outputdir, Outputfile(files[i]), result)
          /\ pc' = "loop"
          /\ UNCHANGED <<exc, failedBatches>>
       \/ /\ Raise("IOError")
          /\ failedBatches' = failedBatches \cup {i}
          /\ UNCHANGED outputdir
    /\ UNCHANGED <<divadirExists, datadir, files, i, contour, parameter, data,
                   meshfile, result, meshCalls, meshOutcome, analysed>>
    /\ UNCHANGED notRun

RunNext ==
    \/ MakeDirs
    \/ CopyContour
    \/ CopyParamMesh
    \/ MeshMake
    \/ MeshRead
    \/ CopyParam
    \/ LoopNext
    \/ CopyData
    \/ Make
    \/ CopyResult

\* States of the components a specification leaves alone.
RunIdle ==
    /\ pc = "idle"
    /\ exc = "none"
    /\ divadirExists = TRUE
    /\ datadir = {}
    /\ files = <<>>
    /\ i = 0
    /\ contour = "absent"
    /\ parameter = "absent"
    /\ data = Absent
    /\ result = Absent
    /\ meshfile = NoMesh
    /\ outputdir = <<>>
    /\ meshCalls = 0
    /\ meshOutcome = "none"
    /\ analysed = {}
    /\ failedBatches = {}

LonIdle ==
    /\ lon = 0
    /\ lonOut = <<>>

MeshIdle ==
    /\ nnodes = 0
    /\ meshsize = 0
    /\ readState = "idle"
    /\ accessed = {}

\* ------------------------------------------------------------- shiftlon
\* shiftlon subtracting half a turn instead of a whole one
shiftlonHalfTurn(longitude) ==
    IF longitude > 180 THEN longitude - 180 ELSE longitude

\* shiftlon correcting every positive longitude
shiftlonFromZero(longitude) ==
    IF longitude > 0 THEN longitude - 360 ELSE longitude

\* function shiftlon(longitude::Number): subtract 360 if larger than 180
shiftlon(longitude) ==
    IF longitude > 180 THEN longitude - 360 ELSE longitude

LonInit ==
    /\ lon \in -MaxLon .. MaxLon
    /\ lonOut = <<>>

\* shiftlon(lon), then shiftlon of what it returned
ApplyShiftlon ==
    /\ Len(lonOut) < 2
    /\ lonOut' = Append(lonOut, shiftlon(IF lonOut = <<>> THEN lon ELSE lonOut[1]))
    /\ UNCHANGED <<lon, runVars, loadVars, meshVars>>

\* --------------------------------------------------------- read_from_np
MeshInit ==
    /\ nnodes \in 0 .. MaxNodes
    /\ meshsize \in 0 .. MaxMeshSize
    /\ readState = "called"
    /\ accessed = {}

\* eee.read_from_np(DivaFiles.mesh, DivaFiles.meshtopo)
ReadMesh ==
    /\ readState = "called"
    /\ readState' = ReadFromNp(nnodes, meshsize)
    /\ accessed' = NodeIndices(nnodes)
    /\ UNCHANGED <<nnodes, meshsize, runVars, lonVars, loadVars>>

\* ------------------------------------------ loadaviso_alongtrack (README)
\* Julia values: nothing, or an array of elements; an element is a number,
\* NaN, missing, or nothing.
Nothing == [isnothing |-> TRUE, elems |-> <<>>]

Arr(s) == [isnothing |-> FALSE, elems |-> s]

Num(x) == [tag |-> "num", v |-> x]

NaN == [tag |-> "NaN", v |-> 0]

Missing == [tag |-> "missing", v |-> 0]

NothingElem == [tag |-> "nothing", v |-> 0]

\* The observations a file may hold: one on each side of 180 degrees, the
\* second with a missing value.
RawObs ==
    { [lon |-> 10, lat |-> 40, time |-> 1, val |-> Num(5)],
      [lon |-> 190, lat |-> 41, time |-> 2, val |-> Missing] }

\* A path of the list: no file there, a file without a variable of the
\* standard name asked for, or a file with its observations in order.
Files ==
    {[isfile |-> FALSE, hasvar |-> FALSE, obs |-> <<>>],
     [isfile |-> TRUE, hasvar |-> FALSE, obs |-> <<>>]}
    \cup {[isfile |-> TRUE, hasvar |-> TRUE, obs |-> o] : o \in SeqsUpTo(RawObs, MaxObs)}

\* coalesce(x, NaN)
CoalesceNaN(x) == IF x = Missing THEN NaN ELSE x

\* loadaviso_alongtrack(datafile::String, stdname): obsval, obslon, obslat,
\* obstime of one file; nothing four times when it is no file; BoundsError
\* when varbyattrib finds no variable (the [1] of an empty list).
LoadOne(f) ==
    IF ~f.isfile
    THEN [raised |-> FALSE, val |-> Nothing, lon |-> Nothing, lat |-> Nothing,
          time |-> Nothing]
    ELSE IF ~f.hasvar
    THEN [raised |-> TRUE, val |-> Nothing, lon |-> Nothing, lat |-> Nothing,
          time |-> Nothing]
    ELSE [raised |-> FALSE,
          val |-> Arr([k \in 1 .. Len(f.obs) |-> CoalesceNaN(f.obs[k].val)]),
          lon |-> Arr([k \in 1 .. Len(f.obs) |-> Num(shiftlon(f.obs[k].lon))]),
          lat |-> Arr([k \in 1 .. Len(f.obs) |-> Num(f.obs[k].lat)]),
          time |-> Arr([k \in 1 .. Len(f.obs) |-> Num(f.obs[k].time)])]

\* vcat(a, b): an array gives its elements, anything else is one element
VcatElems(a) == IF a.isnothing THEN <<NothingElem>> ELSE a.elems

Vcat(a, b) == Arr(VcatElems(a) \o VcatElems(b))

\* the empty list giving four empty arrays
EmptyListArrays ==
    [raised |-> FALSE, val |-> Arr(<<>>), lon |-> Arr(<<>>), lat |-> Arr(<<>>),
     time |-> Arr(<<>>)]

\* What the empty list gives:
\*   obsvallist,obslonlist,obslatlist,obstimelist = nothing, nothing, nothing, nothing
EmptyListResult ==
    [raised |-> FALSE, val |-> Nothing, lon |-> Nothing, lat |-> Nothing,
     time |-> Nothing]

\* the body of: for datafile in filelist[2:end]
VcatOne(acc, f) ==
    LET one == LoadOne(f)
    IN  IF acc.raised \/ one.raised
        THEN [acc EXCEPT !.raised = TRUE]
        ELSE [raised |-> FALSE,
              val |-> Vcat(acc.val, one.val),
              lon |-> Vcat(acc.lon, one.lon),
              lat |-> Vcat(acc.lat, one.lat),
              time |-> Vcat(acc.time, one.time)]

RECURSIVE VcatRest(_, _)
VcatRest(acc, fl) ==
    IF fl = <<>> THEN acc ELSE VcatRest(VcatOne(acc, Head(fl)), Tail(fl))

\* loadaviso_alongtrack(filelist::AbstractVector, stdname)
LoadMany(fl) ==
    IF Len(fl) = 0 THEN EmptyListResult
    ELSE VcatRest(LoadOne(fl[1]), Tail(fl))

\* @warn("Empty file list")
LoadManyWarnings(fl) ==
    IF Len(fl) = 0 THEN <<"Empty file list">> ELSE <<>>

\* loaded before the call has returned: no tuple yet
NoTuple ==
    [raised |-> FALSE, val |-> Arr(<<>>), lon |-> Arr(<<>>), lat |-> Arr(<<>>),
     time |-> Arr(<<>>)]

LoadIdle ==
    /\ filelist = <<>>
    /\ loadState = "idle"
    /\ loaded = NoTuple
    /\ warnings = <<>>

LoadInit ==
    /\ filelist \in SeqsUpTo(Files, MaxFileList)
    /\ loadState = "called"
    /\ loaded = NoTuple
    /\ warnings = <<>>

\* a call of loadaviso_alongtrack(filelist) runs to its return or its error
LoadManyCall ==
    /\ loadState = "called"
    /\ loadState' = IF LoadMany(filelist).raised THEN "raised" ELSE "returned"
    /\ loaded' = LoadMany(filelist)
    /\ warnings' = warnings \o LoadManyWarnings(filelist)
    /\ UNCHANGED <<filelist, runVars, lonVars, meshVars>>

\* ------------------------------------------------------- specifications
\* the notebook run
Init == RunInit /\ LonIdle /\ LoadIdle /\ MeshIdle

Next == RunNext

Spec == Init /\ [][Next]_vars

\* shiftlon on the longitudes of the bounds
InitLon == LonInit /\ RunIdle /\ LoadIdle /\ MeshIdle

NextLon == ApplyShiftlon

SpecLon == InitLon /\ [][NextLon]_vars

\* read_from_np on the mesh files of the bounds
InitMesh == MeshInit /\ RunIdle /\ LonIdle /\ LoadIdle

NextMesh == ReadMesh

SpecMesh == InitMesh /\ [][NextMesh]_vars

\* loadaviso_alongtrack on the file lists of the bounds
InitLoad == LoadInit /\ RunIdle /\ LonIdle /\ MeshIdle

NextLoad == LoadManyCall

SpecLoad == InitLoad /\ [][NextLoad]_vars

\* ---------------------------------------------------- the run's records
\* The notebook keeps one record of its run: the files of outputdir, one per
\* batch identifier. It records no failure anywhere.
ManifestSuccesses == DOMAIN outputdir

ManifestFailures == {}

\* the run has ended: the last cell returned, or an exception stopped it
Ended == pc \in {"done", "raised"}

\* ============================================================== claims
\* C1: in the analysis stage, when the processing of a batch b fails, every
\* batch after b in the sequence is still attempted (staged and analysed): a
\* run that has ended has reached every data file that follows a failed one.
\* (The other half of the claim, b recorded as failed with a reason, meets
\* no record at all in the notebook: ManifestFailures.)
C1_FailureNeverAborts ==
    Ended => \A b \in failedBatches : \A k \in (b + 1) .. Len(files) : k <= i

\* C2: when the run reaches its end after the loop, every attempted batch is
\* listed exactly once, as a success or as a failure:
\* successes + failures = batches attempted.
C2_ManifestCountsAllBatches ==
    pc = "done" =>
        Cardinality(ManifestSuccesses) + Cardinality(ManifestFailures) = i

\* C4: a result recorded under a batch identifier is never replaced: every
\* step leaves each file of outputdir as it was.
C4_NoSilentOverwrite ==
    [][\A n \in DOMAIN outputdir :
          n \in DOMAIN outputdir' /\ outputdir'[n] = outputdir[n]]_vars

\* C5: the mesh generation runs at most once and before any data file is
\* staged or analysed, and when the mesh stage has failed no data file is
\* ever staged or analysed.
C5_MeshFailureAborts ==
    /\ meshCalls <= 1
    /\ (i > 0 \/ analysed # {}) => meshCalls = 1
    /\ (meshOutcome = "failed" \/ exc = "IndexError") =>
           (i = 0 /\ analysed = {} /\ data.src # "datafile")

\* C6: reading mesh files whose array of node values does not hold exactly
\* the three values per declared node ends in a FormatError, and asks for no
\* index outside the array.
C6_CountMismatchIsFormatError ==
    (readState \in {"ok", "IndexError", "FormatError"} /\ meshsize # 3 * nnodes) =>
        /\ readState = "FormatError"
        /\ \A k \in accessed : k < meshsize

\* C7 as stated, for the longitudes of one turn east of Greenwich
\* (0 <= L <= 360, what an along-track file holds): shiftlon(L) lies in
\* [-180, 180) and is congruent to L modulo 360.
C7_ShiftlonInHalfOpenRange ==
    (Len(lonOut) >= 1 /\ 0 <= lon /\ lon <= 360) =>
        /\ -180 <= lonOut[1] /\ lonOut[1] < 180
        /\ (lonOut[1] - lon) % 360 = 0

\* C7 as amended: for every longitude L, shiftlon(L) is congruent to L modulo
\* 360, and for -180 <= L <= 540 it lies in the closed interval [-180, 180].
C7_ShiftlonInClosedRange ==
    Len(lonOut) >= 1 =>
        /\ (lonOut[1] - lon) % 360 = 0
        /\ (-180 <= lon /\ lon <= 540) => (-180 <= lonOut[1] /\ lonOut[1] <= 180)

\* C7 witness: a longitude past 180 has been shifted down by 360.
C7_Witness ==
    /\ Len(lonOut) >= 1
    /\ lon > 180 /\ lon <= 540
    /\ lonOut[1] = lon - 360

\* C8 as stated: for every longitude L, shiftlon(shiftlon(L)) = shiftlon(L).
C8_ShiftlonIdempotent ==
    Len(lonOut) = 2 => lonOut[2] = lonOut[1]

\* C8 as amended: for every longitude L <= 540,
\* shiftlon(shiftlon(L)) = shiftlon(L).
C8_ShiftlonIdempotentUpTo540 ==
    (Len(lonOut) = 2 /\ lon <= 540) => lonOut[2] = lonOut[1]

\* C8 witness: shiftlon has been applied twice to a longitude it corrects.
C8_Witness ==
    /\ Len(lonOut) = 2
    /\ lon > 180 /\ lon <= 540
    /\ lonOut[1] # lon
    /\ lonOut[2] = lonOut[1]

\* the four columns of the tuple loadaviso_alongtrack returns
Columns(t) == {t.val, t.lon, t.lat, t.time}

\* C9 as stated: with an empty file list the call does not raise, warns, and
\* returns a collection of zero observations (not an absent value).
C9_EmptyListGivesEmptyBatch ==
    (loadState # "called" /\ filelist = <<>>) =>
        /\ loadState = "returned"
        /\ warnings # <<>>
        /\ \A c \in Columns(loaded) : ~c.isnothing /\ c.elems = <<>>

\* C9 as amended: with an empty file list the call does not raise, gives the
\* warning "Empty file list", and returns nothing (an absent value) for each
\* of the four columns, not an empty collection.
C9_EmptyListGivesNothing ==
    (loadState # "called" /\ filelist = <<>>) =>
        /\ loadState = "returned"
        /\ warnings = <<"Empty file list">>
        /\ \A c \in Columns(loaded) : c.isnothing

\* C9 witness: the call on the empty list has returned, with its warning.
C9_Witness ==
    /\ loadState = "returned"
    /\ filelist = <<>>
    /\ warnings # <<>>

\* The observations of one file as the loader reads them (none when there
\* is no file), and those of a list of files, file after file.
ObsOfFile(f, col) ==
    IF f.isfile THEN LoadOne(f)[col].elems ELSE <<>>

RECURSIVE ObsOfFiles(_, _)
ObsOfFiles(fl, col) ==
    IF fl = <<>> THEN <<>>
    ELSE ObsOfFile(Head(fl), col) \o ObsOfFiles(Tail(fl), col)

RECURSIVE SumCounts(_)
SumCounts(fl) ==
    IF fl = <<>> THEN 0 ELSE Len(Head(fl).obs) + SumCounts(Tail(fl))

\* C10: for every list of files, the call returns the observations of the
\* first file, then those of the second, and so on in the order of the
\* list, each file's in their own order, the four columns aligned, and as
\* many as the files hold together.
C10_ConcatenatesInFileOrder ==
    (loadState = "returned" /\ filelist # <<>>) =>
        /\ \A col \in {"val", "lon", "lat", "time"} :
              /\ ~loaded[col].isnothing
              /\ loaded[col].elems = ObsOfFiles(filelist, col)
        /\ Len(loaded.val.elems) = SumCounts(filelist)

\* C10, with every path of the list an existing file: holds.
C10_ConcatenatesExistingFiles ==
    (loadState = "returned" /\ \A k \in DOMAIN filelist : filelist[k].isfile) =>
        \A col \in {"val", "lon", "lat", "time"} :
            filelist # <<>> =>
                /\ loaded[col].elems = ObsOfFiles(filelist, col)
                /\ Len(loaded[col].elems) = SumCounts(filelist)

\* C11: when the installation directory divadir is missing, the run stops
\* before any file is put at a fixed input location of the solver (contour,
\* parameter, data), before the solver is called and before any data file is
\* attempted, and outputdir and the failure record stay empty.
C11_MissingRootAbortsBeforeStaging ==
    ~divadirExists =>
        /\ pc \in {"dirs", "contour", "raised"}
        /\ contour = "absent" /\ parameter = "absent" /\ data = Absent
        /\ meshCalls = 0 /\ i = 0 /\ analysed = {}
        /\ ManifestSuccesses = {} /\ failedBatches = {}

\* C11 witness: without divadir, and with data files waiting, the copy of the
\* contour has raised and stopped the run.
C11_Witness ==
    /\ ~divadirExists
    /\ datadir # {}
    /\ pc = "raised" /\ exc = "IOError"

\* A Python run ends with status 0 unless an exception stopped it; the
\* notebook never calls sys.exit.
ExitStatus == IF pc = "raised" THEN 1 ELSE 0

\* the batches whose loop body ran to its end with a result of their own
Succeeded == (1 .. i) \ failedBatches

\* the mesh stage did not give a mesh: the run stopped before the solver
\* was called, the solver failed, or the read raised
MeshStageFailed ==
    \/ meshOutcome = "failed"
    \/ exc = "IndexError"
    \/ pc = "raised" /\ meshCalls = 0

\* C12: at the end of a run the exit status is non-zero exactly when the
\* mesh stage failed or no batch succeeded.
C12_ExitStatus ==
    Ended => ((ExitStatus # 0) <=> (MeshStageFailed \/ Succeeded = {}))

\* C13: a result copied into outputdir for a data file is the one the solver
\* wrote for that data file: a copy of DivaFiles.result for the data file of
\* index i finds there the result of the analysis of that same file.
C13_ResultIsOwn ==
    [][(pc = "copyresult" /\ pc' = "loop") => result = ResultOf(i)]_vars

\* C14: when the solver is about to be called, DivaFiles.parameter holds the
\* parameter file of the mode: the mesh parameters for the mesh generation,
\* the analysis parameters for the analysis of every data file.
C14_ParameterOfTheMode ==
    /\ pc = "meshmake" => parameter = "mesh"
    /\ pc = "make" => parameter = "analysis"

\* C14 witness: the analysis of a second data file is about to run, after a
\* mesh generation, with the analysis parameters in place.
C14_Witness ==
    /\ pc = "make"
    /\ i >= 2
    /\ meshCalls = 1
    /\ parameter = "analysis"

====
